---- MODULE Spec2Model ----
(***************************************************************************)
(* The RSI trading engine of src/strategies.py (RSIStrategy) under its two *)
(* loop drivers: RSIStrategy.run and TerminalUI._handle_trading_display    *)
(* (src/menux.py).                                                         *)
(*                                                                         *)
(* Numbers.  Python floats are modelled by exact rationals:                *)
(*   - a price and a balance are integers counted in the same quote-       *)
(*     currency tick (one tick = 0.1, so 1000 stands for 100.0);           *)
(*   - a fraction of RSIConfig is an integer percentage (0.02 -> 2);       *)
(*   - an amount is a pair <<num, den>> with den > 0, compared by          *)
(*     cross-multiplication;                                               *)
(*   - every inequality of the code is evaluated after multiplying both    *)
(*     sides by the (positive) denominators.                               *)
(* An optional value (Optional[Dict], Optional[float]) is the empty tuple  *)
(* for None and a one-element tuple otherwise.                             *)
(***************************************************************************)
EXTENDS Integers, Sequences, FiniteSets, TLC

VARIABLES
    driver,              \* which loop drives the strategy: "run" or "ui"
    pc,                  \* the driver's position in its loop
    now,                 \* the clock read by time.time()
    start_time,          \* RSIStrategy.run: start_time of the current cycle
    position,            \* RSIStrategy.position
    signal,              \* the local `signal` between generate_signal and
                         \* execute_trade ("NONE" while it is not in use)
    has_current_rsi,     \* whether the attribute self._current_rsi exists
    telegram_configured, \* telegram_bot_token and telegram_chat_id both set
    trading_active,      \* TerminalUI.trading_active
    last,                \* observation: the latest call of execute_trade or
                         \* _check_position_limits and what it did
    cycle,               \* observation: the current cycle's data and orders
                         \* (both observations last until the cycle ends)
    fncall,              \* observation: a function of the engine called on
                         \* its own, with its arguments and its result
    wpc,                 \* src/ILove.py: the watcher's position in its loop
    ws_open,             \* src/ILove.py: whether the socket `ws` is connected
    heard                \* observation: what the watcher's latest iteration
                         \* received and what it did with it

\* the trading engine and its drivers
engine == <<driver, pc, now, start_time, position, signal, has_current_rsi,
            telegram_configured, trading_active, last, cycle>>
\* the pool watcher, a program of its own
watcher == <<wpc, ws_open, heard>>
\* what no step of a trading loop touches
aside == <<fncall, wpc, ws_open, heard>>

vars == <<driver, pc, now, start_time, position, signal, has_current_rsi,
          telegram_configured, trading_active, last, cycle,
          fncall, wpc, ws_open, heard>>

(***************************************************************************)
(* RSIConfig and the literals of the code                                  *)
(***************************************************************************)
\* RSIConfig.rsi_period is set by the caller (default 14); the model runs a
\* strategy configured with a short period so that windows on both sides of
\* it can be enumerated.
rsi_period == 3
oversold == 30
overbought == 70
stop_loss == 2
take_profit == 5
risk_percentage == 10
ema_window == 14
\* the horizon of the time-based exit, in seconds
TimeExit == 14400
\* ccxt's parse_timeframe('5m'), in seconds
timeframe_seconds == 300
\* the factor the run loop applies to it
IntervalFactor == 1000
SleepFloor == 10
ErrorSleep == 60
UiSleep == 5

None == <<>>
Some(x) == <<x>>
Get(o) == o[1]

(***************************************************************************)
(* The environment: what the collaborators can answer                      *)
(***************************************************************************)
\* the longest window fetch_ohlcv returns in the model
MaxBars == 4
Closes == {1, 2}
Windows == UNION {[1..n -> Closes] : n \in 0..MaxBars}
\* fetch_data: None on an exception, a frame of closes otherwise
FetchResults == {[ok |-> FALSE, bars |-> <<>>]} \cup
                {[ok |-> TRUE, bars |-> w] : w \in Windows}

\* ticker['last'], in ticks of 0.1
Prices == {-10, 0, 979, 980, 981, 1000, 1049, 1050, 1051}
Tickers == {[ok |-> FALSE, last |-> 0]} \cup
           {[ok |-> TRUE, last |-> p] : p \in Prices}
\* balance['USDT']['free'], in the same ticks; the lookup can fail
Balances == {[ok |-> FALSE, free |-> 0]} \cup
            {[ok |-> TRUE, free |-> b] : b \in {0, 5000, 20000}}
\* market['limits']['amount']['min']
MinAmounts == {1}
\* create_market_*_order returns, or raises ccxt.InsufficientFunds, or raises
\* an error that execute_trade only logs (ccxt.NetworkError stands for them:
\* the clauses of lines 155 and 157 differ in the log text alone)
OrderResults == {"accepted", "InsufficientFunds", "NetworkError"}
NotifyResults == {"sent", "failed"}
\* The instants the clock is observed at.  Time passes while the loop sleeps
\* (time.sleep returns no earlier than asked) and while the exit check waits
\* for its ticker, which no timeout of the code bounds.
Instants == {0, 14399, 14400, 14401, 314401, 314461}
\* the readings of the clock possible once s seconds have passed since t
Later(t, s) == {u \in Instants : u >= t + s}

NoTicker == [ok |-> FALSE, last |-> 0]
NoBalance == [ok |-> FALSE, free |-> 0]

\* the collaborators' answers one execute_trade("BUY") can consume
TradeEnvs == [ticker : Tickers, balance : Balances, min : MinAmounts,
              order : OrderResults, notify : NotifyResults]
\* execute_trade("SELL") reads neither the balance nor the minimum order
\* size, and uses the ticker price only in the text of its message
SellEnvs == [ticker : {NoTicker, [ok |-> TRUE, last |-> 1000]},
             balance : {NoBalance}, min : MinAmounts,
             order : OrderResults, notify : NotifyResults]
EnvsFor(sig) == IF sig = "BUY" THEN TradeEnvs ELSE SellEnvs
\* the answers of a check that performs no exit: its ticker alone
Quiet(tk) == [ticker |-> tk,
              trade |-> CHOOSE e \in SellEnvs : TRUE,
              notify |-> "sent"]

(***************************************************************************)
(* _calculate_rsi_wilders and generate_signal                              *)
(***************************************************************************)
RECURSIVE Pow(_, _)
Pow(b, k) == IF k = 0 THEN 1 ELSE b * Pow(b, k - 1)

\* delta = df['close'].diff(): NaN at the first row, which both where()
\* calls replace by 0.0 (a comparison with NaN is false)
Delta(bars, i) == IF i = 1 THEN 0 ELSE bars[i] - bars[i - 1]
\* mutant: the gains not clipped at zero
GainUnclipped(bars, i) == Delta(bars, i)
Gain(bars, i) == IF Delta(bars, i) > 0 THEN Delta(bars, i) ELSE 0
\* mutant: every move counted as a loss
LossOfAnyMove(bars, i) ==
    IF Delta(bars, i) < 0 THEN 0 - Delta(bars, i) ELSE Delta(bars, i)
Loss(bars, i) == IF Delta(bars, i) < 0 THEN 0 - Delta(bars, i) ELSE 0

\* ewm(alpha=1/ema_window, adjust=False).mean() at row i, times
\* ema_window^(i-1): y[1] = x[1], y[i] = (1-alpha)*y[i-1] + alpha*x[i]
RECURSIVE AvgGain(_, _)
AvgGain(bars, i) ==
    IF i = 1 THEN Gain(bars, 1)
    ELSE (ema_window - 1) * AvgGain(bars, i - 1)
         + Pow(ema_window, i - 2) * Gain(bars, i)
RECURSIVE AvgLoss(_, _)
AvgLoss(bars, i) ==
    IF i = 1 THEN Loss(bars, 1)
    ELSE (ema_window - 1) * AvgLoss(bars, i - 1)
         + Pow(ema_window, i - 2) * Loss(bars, i)

\* rsi = 100 - 100/(1 + g/(l + 1e-10)) = 100*g/(g + l + 1e-10), with g and l
\* the two averages.  For a threshold th in 1..99 and the scaled integers
\* g, l: rsi < th iff (100-th)*g - th*l < th*e, where e is 1e-10 times the
\* scale and 0 < th*e < 1 for the windows of the model; the left side is
\* an integer, so rsi < th iff it is <= 0, and rsi > th iff it is >= 1.
RsiBelow(g, l, th) == (100 - th) * g - th * l <= 0
RsiAbove(g, l, th) == (100 - th) * g - th * l >= 1

\* The sign of rsi = 100*g/(g + l + e) and of 100 - rsi = 100*(l + e)/(g + l + e)
\* for scaled integers g, l and 0 < e < 1: the denominator is positive iff
\* g + l >= 0, and l + e is positive iff l >= 0.  rsi is exactly 0 iff g = 0.
RsiAtLeastZero(g, l) == IF g + l >= 0 THEN g >= 0 ELSE g <= 0
RsiAtMostHundred(g, l) == IF g + l >= 0 THEN l >= 0 ELSE l < 0
RsiIsZero(g, l) == g = 0

\* the column df['rsi'] of _calculate_rsi_wilders: row i is the pair of
\* scaled averages <<g, l>> that stands for 100*g/(g + l + e)
calculate_rsi_wilders(bars) ==
    [i \in 1..Len(bars) |-> <<AvgGain(bars, i), AvgLoss(bars, i)>>]

\* mutant: the oversold threshold included
signal_for_rsi_inclusive(latest) ==
    IF latest[1] <= oversold * latest[2] THEN "BUY"
    ELSE IF latest[1] > overbought * latest[2] THEN "SELL"
    ELSE "HOLD"
\* lines 88-92 on a value latest_rsi = latest[1]/latest[2], latest[2] > 0
signal_for_rsi(latest) ==
    IF latest[1] < oversold * latest[2] THEN "BUY"
    ELSE IF latest[1] > overbought * latest[2] THEN "SELL"
    ELSE "HOLD"

\* mutant: one bar less than the period accepted
EnoughBarsOffByOne(bars) == Len(bars) >= rsi_period - 1
\* len(df) < self.config.rsi_period fails
EnoughBars(bars) == Len(bars) >= rsi_period

generate_signal(bars) ==
    IF ~EnoughBars(bars) THEN "HOLD"
    ELSE LET g == AvgGain(bars, Len(bars))
             l == AvgLoss(bars, Len(bars))
         IN  IF RsiBelow(g, l, oversold) THEN "BUY"
             ELSE IF RsiAbove(g, l, overbought) THEN "SELL"
             ELSE "HOLD"

\* mutant: the rsi column read without failing on a short frame
RsiColumnAlways(bars) == TRUE
\* df['rsi'] exists only once _calculate_rsi_wilders has run on df
HasRsiColumn(bars) == EnoughBars(bars)

\* df is not None and not df.empty
DataUsable(f) == f.ok /\ Len(f.bars) > 0

(***************************************************************************)
(* _get_trade_amount                                                       *)
(***************************************************************************)
\* usdt_balance * risk_percentage / price as <<num, den>>, den > 0; None
\* when the balance lookup raises or the division raises ZeroDivisionError
get_trade_amount(balance, price) ==
    IF ~balance.ok THEN None
    ELSE IF price = 0 THEN None
    ELSE IF price > 0
         THEN Some(<<balance.free * risk_percentage, 100 * price>>)
         ELSE Some(<<0 - balance.free * risk_percentage, 0 - 100 * price>>)

(***************************************************************************)
(* send_telegram_message                                                   *)
(***************************************************************************)
\* One call of send_telegram_message: nothing is posted without token and
\* chat id; otherwise the post succeeds or fails, and a failure is logged
\* and swallowed.  The call never raises.
send_telegram_message(kind, configured, outcome) ==
    [kind |-> kind, result |-> IF configured THEN outcome ELSE "skipped"]

(***************************************************************************)
(* execute_trade                                                           *)
(***************************************************************************)
\* what one call did: the position it leaves, the orders it submitted, the
\* calls of send_telegram_message it made, the execute_trade calls it held
Outcome(pos, orders, notes, calls) ==
    [position |-> pos, orders |-> orders, notes |-> notes, calls |-> calls]

\* mutant: the BUY branch taken whether or not a position is held
BuyGuardIgnoresPosition(sig, pos) == sig = "BUY"
\* signal == "BUY" and not self.position
BuyGuard(sig, pos) == sig = "BUY" /\ pos = None
\* mutant: the SELL branch taken whether or not a position is held
SellGuardIgnoresPosition(sig, pos) == sig = "SELL"
\* elif signal == "SELL" and self.position
SellGuard(sig, pos) == sig = "SELL" /\ pos # None
\* mutant: a sell order for a fixed amount
HeldAmountUnit(pos) == Some(<<1, 1>>)
\* self.position["amount"], the amount handed to create_market_sell_order
HeldAmount(pos) == IF pos = None THEN None ELSE Some(Get(pos).amount)
\* not amount or amount <= 0
AmountInvalid(amount) == amount = None \/ Get(amount)[1] <= 0
\* mutant: no minimum order size
NoMinimumCheck(amount, min) == FALSE
\* amount < market['limits']['amount']['min']
BelowMinimum(amount, min) == Get(amount)[1] < min * Get(amount)[2]

\* mutant: a failed order drops the position record
OrderFailureClears(pos, order, configured, env) ==
    Outcome(None, <<order>>, <<>>, <<>>)
\* the except clauses of execute_trade after a raising order call: only
\* InsufficientFunds is also reported to the notifier
OrderFailure(pos, order, configured, env) ==
    Outcome(pos, <<order>>,
            IF env.order = "InsufficientFunds"
            THEN <<send_telegram_message("INSUFFICIENT_FUNDS", configured, env.notify)>>
            ELSE <<>>,
            <<>>)

\* mutant: the position recorded with a unit amount
NewPositionUnsized(price, amount, t) ==
    Some([entry_price |-> price, amount |-> <<1, 1>>, timestamp |-> t])
\* the position recorded by an accepted buy
NewPosition(price, amount, t) ==
    Some([entry_price |-> price, amount |-> Get(amount), timestamp |-> t])

\* the BUY branch once the order is accepted: the position is recorded, then
\* the message is formatted (reading self._current_rsi, an AttributeError
\* when it was never assigned, caught by `except Exception`) and sent
BuyAccepted(price, amount, order, rsi_set, t, configured, env) ==
    Outcome(NewPosition(price, amount, t), <<order>>,
            IF rsi_set
            THEN <<send_telegram_message("BUY", configured, env.notify)>>
            ELSE <<>>,
            <<>>)

\* mutant: a failed notification keeps the position of a sold holding
SellAcceptedRollsBack(pos, order, rsi_set, configured, env) ==
    IF rsi_set
    THEN Outcome(IF configured /\ env.notify = "failed" THEN pos ELSE None,
                 <<order>>,
                 <<send_telegram_message("SELL", configured, env.notify)>>, <<>>)
    ELSE Outcome(pos, <<order>>, <<>>, <<>>)
\* the SELL branch once the order is accepted: the message is formatted and
\* sent, and only then the position is cleared; the AttributeError of a
\* missing self._current_rsi leaves the function before that assignment
SellAccepted(pos, order, rsi_set, configured, env) ==
    IF rsi_set
    THEN Outcome(None, <<order>>,
                 <<send_telegram_message("SELL", configured, env.notify)>>, <<>>)
    ELSE Outcome(pos, <<order>>, <<>>, <<>>)

execute_trade(sig, pos, rsi_set, t, configured, env) ==
    LET call == <<sig>>
        noop == Outcome(pos, <<>>, <<>>, call)
        price == env.ticker.last
    IN  IF ~env.ticker.ok THEN noop
        ELSE IF BuyGuard(sig, pos) THEN
            LET amount == get_trade_amount(env.balance, price)
                order == [side |-> "buy", amount |-> amount, result |-> env.order]
            IN  IF AmountInvalid(amount) THEN noop
                ELSE IF BelowMinimum(amount, env.min) THEN noop
                ELSE [(IF env.order = "accepted"
                       THEN BuyAccepted(price, amount, order, rsi_set, t, configured, env)
                       ELSE OrderFailure(pos, order, configured, env))
                      EXCEPT !.calls = call]
        ELSE IF SellGuard(sig, pos) THEN
            LET order == [side |-> "sell", amount |-> HeldAmount(pos),
                          result |-> env.order]
            IN  [(IF env.order = "accepted"
                  THEN SellAccepted(pos, order, rsi_set, configured, env)
                  ELSE OrderFailure(pos, order, configured, env))
                 EXCEPT !.calls = call]
        ELSE noop

(***************************************************************************)
(* _check_position_limits                                                  *)
(***************************************************************************)
\* mutant: the horizon itself already expires
TimeExpiredInclusive(elapsed) == elapsed >= TimeExit
\* elapsed > 14400
TimeExpired(elapsed) == elapsed > TimeExit
\* mutant: the stop-loss bound excluded
StopLossStrict(price, entry) == price * 100 < entry * (100 - stop_loss)
\* price <= entry * (1 - self.config.stop_loss), both sides times 100
StopLossHit(price, entry) == price * 100 <= entry * (100 - stop_loss)
\* price >= entry * (1 + self.config.take_profit), both sides times 100
TakeProfitHit(price, entry) == price * 100 >= entry * (100 + take_profit)

\* the if/elif of lines 182-191: stop loss, else take profit
PriceExits(price, entry) ==
    IF StopLossHit(price, entry) THEN <<"STOP_LOSS">>
    ELSE IF TakeProfitHit(price, entry) THEN <<"TAKE_PROFIT">>
    ELSE <<>>

\* mutant: the time-based exit does not return
ExitsFiredNoReturn(price, entry, elapsed) ==
    (IF TimeExpired(elapsed) THEN <<"TIME_EXIT">> ELSE <<>>)
        \o PriceExits(price, entry)
\* the exits one check performs, in order: the time-based exit returns
\* before the price rules are looked at
ExitsFired(price, entry, elapsed) ==
    IF TimeExpired(elapsed) THEN <<"TIME_EXIT">>
    ELSE PriceExits(price, entry)

\* one exit after what the check did so far: execute_trade("SELL") on the
\* position as it is now, then the exit-reason message
Exit(sofar, reason, rsi_set, t, configured, env) ==
    LET r == execute_trade("SELL", sofar.position, rsi_set, t, configured, env.trade)
    IN  Outcome(r.position,
                sofar.orders \o r.orders,
                (sofar.notes \o r.notes)
                    \o <<send_telegram_message(reason, configured, env.notify)>>,
                sofar.calls \o r.calls)

RECURSIVE RunExits(_, _, _, _, _, _)
RunExits(sofar, reasons, rsi_set, t, configured, env) ==
    IF reasons = <<>> THEN sofar
    ELSE RunExits(Exit(sofar, Head(reasons), rsi_set, t, configured, env),
                  Tail(reasons), rsi_set, t, configured, env)

check_position_limits(pos, rsi_set, t, configured, env) ==
    LET untouched == Outcome(pos, <<>>, <<>>, <<>>)
    IN  IF pos = None THEN untouched
        ELSE IF ~env.ticker.ok THEN untouched
        ELSE RunExits(untouched,
                      ExitsFired(env.ticker.last, Get(pos).entry_price,
                                 t - Get(pos).timestamp),
                      rsi_set, t, configured, env)

(***************************************************************************)
(* The functions of the engine, called on their own                        *)
(***************************************************************************)
\* the largest close of the windows the functions are called on
MaxClose == 4
SignalWindows == UNION {[1..n -> 1..MaxClose] : n \in 0..MaxBars}
\* values of latest_rsi around the two thresholds, as <<num, den>>
Latests == {<<n, 1>> : n \in {0, oversold - 1, oversold, oversold + 1,
                              overbought - 1, overbought, overbought + 1, 100}}
           \cup {<<2 * oversold - 1, 2>>, <<2 * oversold + 1, 2>>,
                 <<2 * overbought - 1, 2>>, <<2 * overbought + 1, 2>>}

\* what is recorded of one call: the function, its arguments, its result
FnCall(fn, bars, latest, balance, price, sig, rsi, amount) ==
    [fn |-> fn, bars |-> bars, latest |-> latest, balance |-> balance,
     price |-> price, signal |-> sig, rsi |-> rsi, amount |-> amount]
NoFnCall == FnCall("none", <<>>, <<0, 1>>, NoBalance, 0, "NONE", <<>>, None)

\* Each function is called once, from the state in which nothing was called.
\* generate_signal(df) on a frame of any length
CallGenerateSignal ==
    /\ fncall = NoFnCall
    /\ \E w \in SignalWindows :
          fncall' = FnCall("generate_signal", w, <<0, 1>>, NoBalance, 0,
                         generate_signal(w), <<>>, None)
    /\ UNCHANGED <<engine, watcher>>

\* the comparisons of lines 88-92 on a given latest_rsi
CallSignalForRsi ==
    /\ fncall = NoFnCall
    /\ \E v \in Latests :
          fncall' = FnCall("signal_for_rsi", <<>>, v, NoBalance, 0,
                         signal_for_rsi(v), <<>>, None)
    /\ UNCHANGED <<engine, watcher>>

\* _calculate_rsi_wilders(df) on a frame with at least one row
CallCalculateRsi ==
    /\ fncall = NoFnCall
    /\ \E w \in SignalWindows :
          /\ Len(w) > 0
          /\ fncall' = FnCall("calculate_rsi_wilders", w, <<0, 1>>, NoBalance, 0,
                            "NONE", calculate_rsi_wilders(w), None)
    /\ UNCHANGED <<engine, watcher>>

\* _get_trade_amount(price) for every answer of fetch_balance
CallGetTradeAmount ==
    /\ fncall = NoFnCall
    /\ \E b \in Balances, p \in Prices :
          fncall' = FnCall("get_trade_amount", <<>>, <<0, 1>>, b, p, "NONE", <<>>,
                         get_trade_amount(b, p))
    /\ UNCHANGED <<engine, watcher>>

FunctionNext ==
    \/ CallGenerateSignal \/ CallSignalForRsi
    \/ CallCalculateRsi \/ CallGetTradeAmount

(***************************************************************************)
(* The pool watcher of src/ILove.py                                        *)
(***************************************************************************)
\* the wrapped-SOL mint extract_token_address passes over
WSOL == "So11111111111111111111111111111111111111112"
\* token.get("mint"): missing or empty (""), wrapped SOL, or a token
Mints == {"", WSOL, "MintA", "MintB"}
\* one entry of tokenTransfers: its mint and whether its fromTokenAccount
\* is non-empty
Transfers == [mint : Mints, from : BOOLEAN]
\* the longest tokenTransfers list of the model
MaxTransfers == 2
TransferLists == UNION {[1..n -> Transfers] : n \in 0..MaxTransfers}

\* what ws.recv() hands to the loop: text that is no JSON object
\* ("garbage"), a JSON object that is no logsNotification ("other"), a
\* logsNotification without params/result/value ("malformed"), or a
\* logsNotification whose logs hold the pool-creation line or not
Messages == [kind : {"garbage", "other", "malformed"}, marker : {FALSE}]
            \cup [kind : {"notification"}, marker : BOOLEAN]
\* fetch_transaction_details: None (also on an exception or an empty
\* answer), a parsed transaction, or a first element that is no object
TxResults == [shape : {"none", "other"}, transfers : {<<>>}]
             \cup [shape : {"dict"}, transfers : TransferLists]
\* perform_rugcheck returns its report or raises (the rugcheck call fails,
\* or the top holders sum to 0)
RugResults == {"report", "raises"}
\* send_telegram_message: response.ok, not response.ok, or requests raises
PostResults == {"ok", "not_ok", "raises"}
\* connect_websocket: connected, websocket.WebSocketException, or another
\* exception (an OSError of the socket)
ConnectResults == {"connected", "WebSocketException", "OSError"}

\* mutant: the source account of the transfer not looked at
EligibleWithoutSource(tr) == tr.mint # "" /\ tr.mint # WSOL
\* line 60: mint and mint != WSOL and token.get("fromTokenAccount")
Eligible(tr) == tr.mint # "" /\ tr.mint # WSOL /\ tr.from

\* lines 57-62: the mint of the first eligible transfer, None without one
RECURSIVE extract_token_address(_)
extract_token_address(transfers) ==
    IF transfers = <<>> THEN None
    ELSE IF Eligible(Head(transfers)) THEN Some(Head(transfers).mint)
    ELSE extract_token_address(Tail(transfers))

\* what is recorded of one iteration: the message, the collaborators'
\* answers it consumed, the token alerts handed to send_telegram_message
Heard(msg, tx, rug, post, conn, alerts) ==
    [msg |-> msg, tx |-> tx, rug |-> rug, post |-> post, conn |-> conn,
     alerts |-> alerts]
NoTx == [shape |-> "none", transfers |-> <<>>]
NoMessage == Heard([kind |-> "none", marker |-> FALSE], NoTx, "none", "none",
                   "none", <<>>)

\* lines 139-164 for a notification with the pool-creation line, after
\* ws.close(): the alerts sent, whether an exception left the block before
\* line 164 (tx_details.get on a non-object, perform_rugcheck, requests.post)
process_pool(tx, rug, post) ==
    LET mint == IF tx.shape = "dict" THEN extract_token_address(tx.transfers)
                ELSE None
        checked == mint # None /\ rug = "report"
    IN  [alerts |-> IF checked THEN <<Get(mint)>> ELSE <<>>,
         raised |-> \/ tx.shape = "other"
                    \/ (mint # None /\ rug = "raises")
                    \/ (checked /\ post = "raises")]

\* line 132 raises websocket.WebSocketException (always so on a socket that
\* is closed): lines 165-167 leave the loop
WatchRecvFail ==
    /\ wpc = "recv"
    /\ wpc' = "stopped"
    /\ heard' = Heard([kind |-> "error", marker |-> FALSE], NoTx, "none", "none",
                      "none", <<>>)
    /\ UNCHANGED <<engine, fncall, ws_open>>

\* lines 132-138 and 173-174 for a message that is not a pool creation:
\* nothing is done with it (json.loads or a missing key raises, and
\* `except Exception` prints)
WatchIgnore ==
    /\ wpc = "recv" /\ ws_open
    /\ \E msg \in Messages :
          /\ ~(msg.kind = "notification" /\ msg.marker)
          /\ heard' = Heard(msg, NoTx, "none", "none", "none", <<>>)
    /\ UNCHANGED <<engine, fncall, wpc, ws_open>>

\* lines 132-164 and 165-174 for a logsNotification with the pool-creation
\* line: ws.close(), the transaction, the mint, the report, the alert, and
\* connect_websocket() unless an exception left the block before it
WatchPool ==
    /\ wpc = "recv" /\ ws_open
    /\ \E msg \in Messages, tx \in TxResults :
          LET mint == IF tx.shape = "dict"
                      THEN extract_token_address(tx.transfers) ELSE None
          IN  /\ msg.kind = "notification" /\ msg.marker
              /\ \E rug \in (IF mint # None THEN RugResults ELSE {"none"}) :
                 \E post \in (IF mint # None /\ rug = "report"
                               THEN PostResults ELSE {"none"}) :
                   LET r == process_pool(tx, rug, post)
                   IN  \E conn \in (IF r.raised THEN {"none"}
                                     ELSE ConnectResults) :
                         /\ heard' = Heard(msg, tx, rug, post, conn, r.alerts)
                         /\ ws_open' = (~r.raised /\ conn = "connected")
                         /\ wpc' = IF ~r.raised /\ conn = "WebSocketException"
                                   THEN "stopped" ELSE "recv"
    /\ UNCHANGED <<engine, fncall>>

\* lines 168-172: KeyboardInterrupt closes the socket and leaves the loop
WatchInterrupt ==
    /\ wpc = "recv"
    /\ ws_open' = FALSE
    /\ wpc' = "stopped"
    /\ heard' = NoMessage
    /\ UNCHANGED <<engine, fncall>>

WatcherNext == WatchRecvFail \/ WatchIgnore \/ WatchPool \/ WatchInterrupt

(***************************************************************************)
(* The two loops                                                           *)
(***************************************************************************)
\* interval = self.exchange.parse_timeframe(self.timeframe) * 1000
interval == timeframe_seconds * IntervalFactor

\* sleep_time = interval - ((time.time() - start_time) % interval), and the
\* argument of time.sleep: max(sleep_time, 10)
sleep_time(t, start) == interval - ((t - start) % interval)
SleepArg(t, start) ==
    IF sleep_time(t, start) > SleepFloor THEN sleep_time(t, start) ELSE SleepFloor

DataKind(f) ==
    IF ~f.ok THEN "fail"
    ELSE IF Len(f.bars) = 0 THEN "empty"
    ELSE IF ~EnoughBars(f.bars) THEN "short"
    ELSE "ok"

\* what is recorded of a call: its inputs and its outcome
Observe(op, sig, pre, t, ticker, balance, min, r) ==
    [op |-> op, signal |-> sig, pre |-> pre, t |-> t, ticker |-> ticker,
     balance |-> balance, min |-> min,
     orders |-> r.orders, notes |-> r.notes, calls |-> r.calls]

\* no call of the current cycle yet
NoCall == Observe("none", "NONE", None, 0, NoTicker, NoBalance, 1,
                  Outcome(None, <<>>, <<>>, <<>>))

NoCycle == [data |-> "none", orders |-> 0, moved |-> FALSE]
NewCycle(f) == [data |-> DataKind(f), orders |-> 0, moved |-> FALSE]
CycleAfter(r) ==
    [cycle EXCEPT !.orders = @ + Len(r.orders),
                  !.moved = @ \/ (r.position # position)]

\* the engine as RSIStrategy.__init__ leaves it, before either loop
EngineInit ==
    /\ driver \in {"run", "ui"}
    /\ pc = IF driver = "run" THEN "fetch" ELSE "menu"
    /\ now = 0
    /\ start_time = 0
    /\ position = None
    /\ signal = "NONE"
    /\ has_current_rsi = FALSE
    /\ telegram_configured \in BOOLEAN
    /\ trading_active = FALSE
    /\ last = NoCall
    /\ cycle = NoCycle

\* the trading bot: the watcher is another program, which does not run
Init ==
    /\ EngineInit
    /\ fncall = NoFnCall
    /\ wpc = "off"
    /\ ws_open = FALSE
    /\ heard = NoMessage

\* the watcher after lines 121-128: connected and subscribed (the trading
\* bot is no part of this program: its variables keep one initial value)
WatcherInit ==
    /\ EngineInit /\ driver = "run" /\ ~telegram_configured
    /\ fncall = NoFnCall
    /\ wpc = "recv"
    /\ ws_open = TRUE
    /\ heard = NoMessage

\* the call self.execute_trade(signal) of either loop
TradeStep ==
    \E env \in EnvsFor(signal) :
        LET r == execute_trade(signal, position, has_current_rsi, now,
                               telegram_configured, env)
        IN  /\ position' = r.position
            /\ last' = Observe("execute_trade", signal, position, now, env.ticker,
                               env.balance, env.min, r)
            /\ cycle' = CycleAfter(r)

\* RSIStrategy.run, lines 221-228: fetch, signal, self._current_rsi.  A
\* frame without the rsi column raises KeyError at line 227, which the
\* `except Exception` of the loop answers with time.sleep(60).
RunFetch ==
    /\ UNCHANGED aside
    /\ driver = "run" /\ pc = "fetch"
    /\ start_time' = now
    /\ \E f \in FetchResults :
        /\ cycle' = NewCycle(f)
        /\ IF ~DataUsable(f)
           THEN /\ pc' = "sleep"
                /\ UNCHANGED now
                /\ signal' = "NONE"
                /\ UNCHANGED has_current_rsi
           ELSE IF HasRsiColumn(f.bars)
           THEN /\ signal' = generate_signal(f.bars)
                /\ has_current_rsi' = TRUE
                /\ pc' = "trade"
                /\ UNCHANGED now
           ELSE /\ signal' = "NONE"
                /\ now' \in Later(now, ErrorSleep)
                /\ pc' = "fetch"
                /\ UNCHANGED has_current_rsi
    /\ last' = NoCall
    /\ UNCHANGED <<driver, position, telegram_configured, trading_active>>

\* line 230
RunTrade ==
    /\ UNCHANGED aside
    /\ driver = "run" /\ pc = "trade"
    /\ TradeStep
    /\ pc' = "check"
    /\ signal' = "NONE"
    /\ UNCHANGED <<driver, now, start_time, has_current_rsi,
                   telegram_configured, trading_active>>

\* the answers one _check_position_limits can consume: none without a
\* position, a ticker otherwise, and those of an exit only when one fires
CheckEnvsFor(pos, t) ==
    IF pos = None THEN {Quiet(NoTicker)}
    ELSE UNION {
        IF tk.ok /\ ExitsFired(tk.last, Get(pos).entry_price,
                               t - Get(pos).timestamp) # <<>>
        THEN [ticker : {tk}, trade : SellEnvs, notify : NotifyResults]
        ELSE {Quiet(tk)} : tk \in Tickers}

\* line 231
RunCheck ==
    /\ UNCHANGED aside
    /\ driver = "run" /\ pc = "check"
    /\ \E t \in Later(now, 0) : \E env \in CheckEnvsFor(position, t) :
        LET r == check_position_limits(position, has_current_rsi, t,
                                       telegram_configured, env)
        IN  /\ now' = t
            /\ position' = r.position
            /\ last' = Observe("check_position_limits", "NONE", position, t,
                               IF position = None THEN NoTicker ELSE env.ticker,
                               NoBalance, 1, r)
            /\ cycle' = CycleAfter(r)
    /\ pc' = "sleep"
    /\ UNCHANGED <<driver, start_time, signal, has_current_rsi,
                   telegram_configured, trading_active>>

\* lines 234-235
RunSleep ==
    /\ UNCHANGED aside
    /\ driver = "run" /\ pc = "sleep"
    /\ now' \in Later(now, SleepArg(now, start_time))
    /\ pc' = "fetch"
    /\ last' = NoCall
    /\ cycle' = NoCycle
    /\ UNCHANGED <<driver, start_time, position, signal, has_current_rsi,
                   telegram_configured, trading_active>>

\* lines 237-239: KeyboardInterrupt ends the loop
RunInterrupt ==
    /\ UNCHANGED aside
    /\ driver = "run" /\ pc \in {"fetch", "trade", "check", "sleep"}
    /\ pc' = "stopped"
    /\ signal' = "NONE"
    /\ last' = NoCall
    /\ cycle' = NoCycle
    /\ UNCHANGED <<driver, now, start_time, position, has_current_rsi,
                   telegram_configured, trading_active>>

\* TerminalUI.run, lines 244-246: "Start Trading"
UiStart ==
    /\ UNCHANGED aside
    /\ driver = "ui" /\ pc = "menu"
    /\ trading_active' = TRUE
    /\ pc' = "fetch"
    /\ UNCHANGED <<driver, now, start_time, position, signal, has_current_rsi,
                   telegram_configured, last, cycle>>

\* _handle_trading_display, lines 194-198.  The KeyError of line 198 is not
\* caught by `except KeyboardInterrupt`: it leaves the function, TerminalUI.run
\* and main.
UiFetch ==
    /\ UNCHANGED aside
    /\ driver = "ui" /\ pc = "fetch" /\ trading_active
    /\ \E f \in FetchResults :
        /\ cycle' = NewCycle(f)
        /\ IF ~DataUsable(f)
           THEN pc' = "key" /\ signal' = "NONE"
           ELSE IF HasRsiColumn(f.bars)
           THEN signal' = generate_signal(f.bars) /\ pc' = "trade"
           ELSE /\ signal' = "NONE"
                /\ pc' = "crashed"
    /\ last' = NoCall
    /\ UNCHANGED <<driver, now, start_time, position, has_current_rsi,
                   telegram_configured, trading_active>>

\* lines 215-216: execute_trade, then time.sleep(5)
UiTrade ==
    /\ UNCHANGED aside
    /\ driver = "ui" /\ pc = "trade"
    /\ TradeStep
    /\ now' \in Later(now, UiSleep)
    /\ pc' = "key"
    /\ signal' = "NONE"
    /\ UNCHANGED <<driver, start_time, has_current_rsi,
                   telegram_configured, trading_active>>

\* lines 218-221: ESC stops trading, any other key or none goes on
UiKey ==
    /\ UNCHANGED aside
    /\ driver = "ui" /\ pc = "key"
    /\ \E esc \in BOOLEAN :
        IF esc THEN trading_active' = FALSE /\ pc' = "menu"
        ELSE pc' = "fetch" /\ UNCHANGED trading_active
    /\ last' = NoCall
    /\ cycle' = NoCycle
    /\ UNCHANGED <<driver, now, start_time, position, signal, has_current_rsi,
                   telegram_configured>>

\* lines 222-223
UiInterrupt ==
    /\ UNCHANGED aside
    /\ driver = "ui" /\ pc \in {"fetch", "trade", "key"}
    /\ trading_active' = FALSE
    /\ pc' = "menu"
    /\ signal' = "NONE"
    /\ last' = NoCall
    /\ cycle' = NoCycle
    /\ UNCHANGED <<driver, now, start_time, position, has_current_rsi,
                   telegram_configured>>

Next ==
    \/ RunFetch \/ RunTrade \/ RunCheck \/ RunSleep \/ RunInterrupt
    \/ UiStart \/ UiFetch \/ UiTrade \/ UiKey \/ UiInterrupt

Spec == Init /\ [][Next]_vars

\* the functions alone, on every input of the bounded sets
FunctionSpec == Init /\ [][FunctionNext]_vars

\* the watcher alone
WatcherSpec == WatcherInit /\ [][WatcherNext]_vars

(***************************************************************************)
(* Properties                                                              *)
(***************************************************************************)
Range(seq) == {seq[i] : i \in 1..Len(seq)}
Submitted(side) == {o \in Range(last.orders) : o.side = side}
Accepted(side) == {o \in Submitted(side) : o.result = "accepted"}
Rejected == {o \in Range(last.orders) : o.result # "accepted"}
NoteKinds == {n.kind : n \in Range(last.notes)}
ExitKinds == {"TIME_EXIT", "STOP_LOSS", "TAKE_PROFIT"}
ExitNotes == {i \in 1..Len(last.notes) : last.notes[i].kind \in ExitKinds}
\* the latest call was execute_trade(sig), called by a loop itself
Traded(sig) == last.op = "execute_trade" /\ last.signal = sig
\* the latest call was _check_position_limits on an open position whose
\* ticker was read
Checked == /\ last.op = "check_position_limits"
           /\ last.pre # None
           /\ last.ticker.ok
Elapsed == last.t - Get(last.pre).timestamp
Entry == Get(last.pre).entry_price
Price == last.ticker.last

\* C1: a BUY signal received while a position is recorded submits no order
\* and leaves the position record as it was; a buy order is only ever
\* submitted by a call that found no position, so two accepted buys are
\* separated by a clearing of the position.
C1_AtMostOnePosition ==
    /\ (Traded("BUY") /\ last.pre # None)
          => (last.orders = <<>> /\ position = last.pre)
    /\ (Submitted("buy") # {}) => last.pre = None
C1_Witness ==
    /\ Traded("BUY") /\ last.pre # None
    /\ last.ticker.ok /\ last.balance.ok /\ last.balance.free = 20000

\* C2: an accepted market sell order leaves no position behind.
C2_SellClearsPosition == (Accepted("sell") # {}) => position = None
\* under RSIStrategy.run, which assigns self._current_rsi, it does
C2_UnderRun == driver = "run" => C2_SellClearsPosition

\* the sizing of the latest call is valid: balance and price were read and
\* are positive, and balance * risk_percentage / price reaches the minimum
ValidSizing ==
    /\ last.ticker.ok /\ last.balance.ok
    /\ Price > 0 /\ last.balance.free > 0
    /\ last.balance.free * risk_percentage >= last.min * 100 * Price
StopLossHolds == Price * 100 <= Entry * (100 - stop_loss)
TakeProfitHolds == Price * 100 >= Entry * (100 + take_profit)
ExitNoteKinds == NoteKinds \cap ExitKinds

\* C4: one exit check makes at most one sell attempt and sends at most one
\* exit-reason message, and the rule that fires is the first that holds in
\* the order time expiry, stop loss, take profit.
C4_ExitPriority ==
    /\ last.op = "check_position_limits"
          => (Len(last.calls) <= 1 /\ Len(last.orders) <= 1
              /\ Cardinality(ExitNotes) <= 1)
    /\ Checked =>
          /\ Elapsed > TimeExit => ExitNoteKinds = {"TIME_EXIT"}
          /\ (Elapsed <= TimeExit /\ StopLossHolds)
                => ExitNoteKinds = {"STOP_LOSS"}
          /\ (Elapsed <= TimeExit /\ ~StopLossHolds /\ TakeProfitHolds)
                => ExitNoteKinds = {"TAKE_PROFIT"}
C4_Witness ==
    /\ Checked /\ Elapsed > TimeExit /\ StopLossHolds
    /\ ExitNoteKinds = {"TIME_EXIT"} /\ last.calls = <<"SELL">>

\* C5: within the time horizon an exit is attempted exactly when the price
\* is at or below entry*(1 - stop_loss) or at or above entry*(1 + take_profit);
\* with entry 100.0, 97.9 and 105.1 exit, 98.1 and 104.9 do not.
C5_PriceExits ==
    (Checked /\ Elapsed <= TimeExit) =>
        /\ (last.calls = <<"SELL">>) <=> (StopLossHolds \/ TakeProfitHolds)
        /\ last.calls \in {<<>>, <<"SELL">>}
        /\ Entry = 1000 =>
              /\ Price \in {979, 980, 1050, 1051} => last.calls = <<"SELL">>
              /\ Price \in {981, 1049} => last.calls = <<>>
C5_Witness ==
    /\ Checked /\ Elapsed <= TimeExit /\ Entry = 1000 /\ Price = 980
    /\ last.calls = <<"SELL">> /\ ExitNoteKinds = {"STOP_LOSS"}

\* C6: an elapsed time above 14400 makes the check exit at every price; up
\* to 14400 the time rule fires nothing (no time-based exit, and no exit at
\* all unless a price rule holds).
C6_TimeExpiry ==
    Checked =>
        /\ Elapsed > 14400
              => (last.calls = <<"SELL">> /\ "TIME_EXIT" \in NoteKinds)
        /\ Elapsed <= 14400
              => /\ "TIME_EXIT" \notin NoteKinds
                 /\ (~StopLossHolds /\ ~TakeProfitHolds) => last.calls = <<>>
C6_Witness ==
    /\ Checked /\ Elapsed = 14401 /\ Entry = 1000 /\ Price = 1000
    /\ last.calls = <<"SELL">> /\ "TIME_EXIT" \in NoteKinds
\* the neighbouring instants are met as well
C6_Below == Checked /\ Elapsed = 14399 /\ Price = Entry /\ last.calls = <<>>
C6_At == Checked /\ Elapsed = 14400 /\ Price = Entry /\ last.calls = <<>>

\* C7: no failure of a collaborator ends a trading loop; a loop ends only
\* on a stop request.
C7_OnlyStopEndsLoop == pc # "crashed"

\* C8: a rejected or failed order leaves the position as the call found it
\* (FLAT after a failed buy, the same record after a failed sell), and the
\* call returns to its loop.
C8_RejectionKeepsState ==
    (Rejected # {}) => (position = last.pre /\ pc \in {"check", "sleep", "key"})
C8_Witness ==
    /\ Traded("SELL") /\ last.pre # None
    /\ Rejected # {} /\ position = last.pre

\* C9: a cycle whose fetch failed, was empty or was shorter than the period
\* calls neither execute_trade nor the exit check: it submits no order and
\* leaves the position record unchanged.
C9_SkipCycle ==
    cycle.data \in {"fail", "empty", "short"}
        => (cycle.orders = 0 /\ ~cycle.moved /\ last = NoCall)
C9_Witness ==
    /\ driver = "run" /\ cycle.data = "short"
    /\ position # None /\ now - Get(position).timestamp > TimeExit

\* C10: with the order accepted, the position after execute_trade does not
\* depend on the notifier: OPEN after a buy and FLAT after a sell whose
\* message was handed to the notifier, whatever the notifier answered; and
\* for every answer of the collaborators, the call leaves the same position
\* with the notification sent as with the notification failed.
C10_NotifierIndependent ==
    /\ (Accepted("buy") # {}) => position # None
    /\ (Accepted("sell") # {} /\ "SELL" \in NoteKinds) => position = None
    /\ pc = "trade" =>
          \A e \in EnvsFor(signal) :
              execute_trade(signal, position, has_current_rsi, now,
                            telegram_configured, [e EXCEPT !.notify = "sent"]).position
              = execute_trade(signal, position, has_current_rsi, now,
                              telegram_configured, [e EXCEPT !.notify = "failed"]).position
C10_Witness ==
    /\ Traded("SELL") /\ Accepted("sell") # {}
    /\ \E n \in Range(last.notes) : n.kind = "SELL" /\ n.result = "failed"
    /\ position = None

\* the position record is well-formed and sized at its own entry price
PositionSized ==
    position # None =>
        /\ Get(position).entry_price > 0
        /\ Get(position).amount[1] > 0
        /\ Get(position).amount[2] = 100 * Get(position).entry_price
\* the call that opened the position recorded the price it read and the
\* amount it sized and ordered
OpenedAsOrdered ==
    (last.op # "none" /\ last.pre = None /\ position # None) =>
        /\ last.ticker.ok /\ last.balance.ok
        /\ Get(position).entry_price = Price
        /\ Get(position).amount = <<last.balance.free * risk_percentage, 100 * Price>>
        /\ Accepted("buy") =
              {[side |-> "buy", amount |-> Some(Get(position).amount),
                result |-> "accepted"]}
C12_FlatStaysFlat ==
    /\ (last.op # "none" /\ last.pre = None /\ ~Traded("BUY"))
          => (last.orders = <<>> /\ position = None)
    /\ \A o \in Submitted("sell") :
          last.pre # None /\ o.amount = Some(Get(last.pre).amount)
C12_Witness ==
    /\ Traded("SELL") /\ last.pre = None /\ last.ticker.ok
    /\ last.orders = <<>> /\ position = None
\* the exit check on a FLAT engine is met as well
C12_CheckedFlat ==
    /\ last.op = "check_position_limits" /\ last.pre = None
    /\ last.orders = <<>> /\ position = None

\* the latest call was fn on a frame of at least one row
Called(fn) == fncall.fn = fn
LatestGain == AvgGain(fncall.bars, Len(fncall.bars))
LatestLoss == AvgLoss(fncall.bars, Len(fncall.bars))

\* C13: generate_signal returns HOLD for every window shorter than
\* rsi_period, whatever its closes (the empty window included).
C13_ShortWindowHolds ==
    (Called("generate_signal") /\ Len(fncall.bars) < rsi_period)
        => fncall.signal = "HOLD"
\* a rising window one bar short of the period
C13_Witness ==
    /\ Called("generate_signal") /\ fncall.signal = "HOLD"
    /\ Len(fncall.bars) = rsi_period - 1 /\ Len(fncall.bars) >= 2
    /\ \A i \in 2..Len(fncall.bars) : fncall.bars[i] > fncall.bars[i - 1]

\* The latest value of a window, 100*g/(g + l + e), is 0 when g = 0 and
\* otherwise lies strictly between the integers c and c + 1, where c is the
\* largest integer below 100*g/(g + l) (e is far smaller than 1/(g + l)).
LatestBracket == (100 * LatestGain - 1) \div (LatestGain + LatestLoss)
LatestUnder(th) == LatestGain = 0 \/ LatestBracket + 1 <= th
LatestOver(th) == LatestGain > 0 /\ LatestBracket >= th
\* C14: on a window of at least rsi_period bars generate_signal returns BUY
\* iff the latest value is below oversold, SELL iff it is above overbought,
\* HOLD otherwise; and the comparisons are strict: on a latest value v the
\* result is BUY iff v < oversold, SELL iff v > overbought, so v = oversold
\* and v = overbought give HOLD.
C14_StrictThresholds ==
    /\ (Called("generate_signal") /\ Len(fncall.bars) >= rsi_period) =>
          /\ fncall.signal = "BUY" <=> LatestUnder(oversold)
          /\ fncall.signal = "SELL" <=> LatestOver(overbought)
          /\ fncall.signal = "HOLD"
                <=> (~LatestUnder(oversold) /\ ~LatestOver(overbought))
    /\ Called("signal_for_rsi") =>
          /\ fncall.signal = "BUY"
                <=> fncall.latest[1] < oversold * fncall.latest[2]
          /\ fncall.signal = "SELL"
                <=> fncall.latest[1] > overbought * fncall.latest[2]
          /\ fncall.latest \in {<<oversold, 1>>, <<overbought, 1>>}
                => fncall.signal = "HOLD"
C14_Witness ==
    /\ Called("signal_for_rsi") /\ fncall.latest = <<oversold, 1>>
    /\ fncall.signal = "HOLD"
\* a window whose latest value lies between the thresholds is met as well
C14_WindowHolds ==
    /\ Called("generate_signal") /\ Len(fncall.bars) >= rsi_period
    /\ fncall.signal = "HOLD" /\ LatestGain > 0 /\ LatestLoss > 0

\* the window of the latest call is not degenerate: two rows or more, and
\* some close differs from the one before
NonDegenerate ==
    /\ Len(fncall.bars) >= 2
    /\ \E i \in 2..Len(fncall.bars) : fncall.bars[i] # fncall.bars[i - 1]
\* no close up to row i is above the one before it
NoRiseUpTo(i) == \A j \in 2..i : fncall.bars[j] <= fncall.bars[j - 1]
\* C15 as stated: on a non-degenerate window every oscillator value lies
\* strictly between 0 and 100.
C15_OscillatorRange ==
    (Called("calculate_rsi_wilders") /\ NonDegenerate) =>
        \A i \in 1..Len(fncall.bars) :
            /\ RsiAtLeastZero(fncall.rsi[i][1], fncall.rsi[i][2])
            /\ ~RsiIsZero(fncall.rsi[i][1], fncall.rsi[i][2])
            /\ RsiAtMostHundred(fncall.rsi[i][1], fncall.rsi[i][2])
\* C15 as amended: on a non-degenerate window every oscillator value lies
\* in the closed interval from 0 to 100, and it is exactly 0 at the first
\* row and at every row up to which no close has risen.
C15_OscillatorRangeClosed ==
    (Called("calculate_rsi_wilders") /\ NonDegenerate) =>
        \A i \in 1..Len(fncall.bars) :
            /\ RsiAtLeastZero(fncall.rsi[i][1], fncall.rsi[i][2])
            /\ RsiAtMostHundred(fncall.rsi[i][1], fncall.rsi[i][2])
            /\ NoRiseUpTo(i) => RsiIsZero(fncall.rsi[i][1], fncall.rsi[i][2])
C15_Witness ==
    /\ Called("calculate_rsi_wilders") /\ NonDegenerate
    /\ Len(fncall.bars) = 3
    /\ fncall.bars[1] > fncall.bars[2] /\ fncall.bars[2] < fncall.bars[3]
    /\ RsiIsZero(fncall.rsi[2][1], fncall.rsi[2][2])
    /\ ~RsiIsZero(fncall.rsi[3][1], fncall.rsi[3][2])

StrictlyDecreasing(bars) == \A i \in 2..Len(bars) : bars[i] < bars[i - 1]
StrictlyIncreasing(bars) == \A i \in 2..Len(bars) : bars[i] > bars[i - 1]
C16_Falling ==
    /\ Called("generate_signal") /\ Len(fncall.bars) >= rsi_period
    /\ StrictlyDecreasing(fncall.bars) /\ fncall.signal = "BUY"

\* C17: _get_trade_amount returns None whenever the price is <= 0 or the
\* balance lookup fails, and free * risk_percentage / price otherwise.
C17_SizingFailure ==
    Called("get_trade_amount") =>
        IF fncall.price <= 0 \/ ~fncall.balance.ok
        THEN fncall.amount = None
        ELSE fncall.amount = Some(<<fncall.balance.free * risk_percentage,
                                    100 * fncall.price>>)
\* for a price above 0 it does
C17_PositivePrice == fncall.price > 0 => C17_SizingFailure

\* C18: the argument of the time.sleep that ends a cycle of RSIStrategy.run
\* is at least the floor of 10 seconds and, unless the floor applies, at
\* most one candle interval in the clock's unit (seconds).
C18_SleepWithinCandle ==
    pc = "sleep" =>
        /\ SleepArg(now, start_time) >= SleepFloor
        /\ \/ SleepArg(now, start_time) <= timeframe_seconds
           \/ SleepArg(now, start_time) = SleepFloor
\* the floor alone does hold
C18_Floor == pc = "sleep" => SleepArg(now, start_time) >= SleepFloor

\* the cycle has made its last call, on a frame of at least rsi_period bars,
\* and no collaborator failed in that call: the ticker was read, the call
\* found a position held for more than TimeExit seconds, and a sell it
\* attempted reached the gateway and was accepted
ExpiredAtCycleEnd ==
    /\ pc \in {"sleep", "key"} /\ cycle.data = "ok"
    /\ last.op # "none" /\ last.pre # None /\ last.ticker.ok
    /\ last.t - Get(last.pre).timestamp > TimeExit
    /\ Rejected = {}
    /\ "SELL" \in Range(last.calls) => last.orders # <<>>
\* C19: an evaluation cycle that runs on a full frame with a gateway that
\* answers and accepts, more than 14400 seconds after the entry, ends with
\* the position closed, whatever the price and the signal and whichever
\* loop drives the engine (so that a position past the horizon is closed
\* as soon as such a cycle runs).
C19_ExpiredClosed == ExpiredAtCycleEnd => position = None
\* under RSIStrategy.run it is
C19_UnderRun == driver = "run" => C19_ExpiredClosed
C19_UnderRunMet ==
    /\ driver = "run" /\ ExpiredAtCycleEnd /\ position = None
    /\ "TIME_EXIT" \in NoteKinds

\* C20: an iteration of the watcher hands at most one token alert to
\* send_telegram_message, and only for a logsNotification with the
\* pool-creation line whose transaction was fetched and whose report was
\* built; the mint alerted is neither empty nor wrapped SOL and is the mint
\* of the first transfer, in order, with such a mint and a non-empty
\* fromTokenAccount.
C20_AlertCondition ==
    /\ Len(heard.alerts) <= 1
    /\ heard.alerts # <<>> =>
          /\ heard.msg.kind = "notification" /\ heard.msg.marker
          /\ heard.tx.shape = "dict" /\ heard.rug = "report"
          /\ heard.alerts[1] \notin {"", WSOL}
          /\ \E i \in 1..Len(heard.tx.transfers) :
                /\ heard.tx.transfers[i].mint = heard.alerts[1]
                /\ heard.tx.transfers[i].from
                /\ \A j \in 1..(i - 1) :
                      \/ heard.tx.transfers[j].mint \in {"", WSOL}
                      \/ ~heard.tx.transfers[j].from
C20_Witness ==
    /\ heard.alerts = <<"MintB">>
    /\ heard.tx.transfers = <<[mint |-> "MintA", from |-> FALSE],
                              [mint |-> "MintB", from |-> TRUE]>>
\* a pool creation without an eligible transfer is met as well
C20_NoAlert ==
    /\ heard.msg.kind = "notification" /\ heard.msg.marker
    /\ heard.tx.shape = "dict" /\ Len(heard.tx.transfers) = 2
    /\ heard.tx.transfers[1].mint = WSOL /\ heard.alerts = <<>>

\* C21: every ws.recv() of the watcher loop is made on a connected socket:
\* after a pool creation closed the connection, a new one is established
\* before the next recv, also when the transaction fetch, the mint
\* extraction, the risk check or the alert fails or raises (a connect that
\* is itself refused aside).
C21_RecvOnOpenSocket == (wpc = "recv" /\ heard.conn # "OSError") => ws_open
\* when the processing returns and the connect succeeds, it is
C21_AfterReturn ==
    (wpc = "recv" /\ heard.conn = "connected") => ws_open
\* the loop then ends on the recv of the closed socket
C21_LoopEnded == wpc = "stopped" /\ ~ws_open /\ heard.msg.kind = "error"

\* the exit-reason messages of the latest call that reached the notifier
DeliveredExitNotes == {i \in ExitNotes : last.notes[i].result = "sent"}
\* C22: _check_position_limits sends an exit-reason message (time-based
\* exit, stop loss, take profit) only in a check that found a position and
\* left none; when the sell of the exit was rejected or failed and the
\* position is still recorded, no exit-reason message is sent.
C22_TruthfulExitNotes ==
    (last.op = "check_position_limits" /\ DeliveredExitNotes # {})
        => (last.pre # None /\ position = None)
\* the case of a rejected sell: the message is delivered, the position kept
C22_RejectedYetNotified ==
    /\ last.op = "check_position_limits" /\ Rejected # {}
    /\ position # None /\ position = last.pre
    /\ \E i \in DeliveredExitNotes : last.notes[i].kind = "TIME_EXIT"
\* an exit whose sell was accepted does report a closed position
C22_AcceptedExit ==
    (last.op = "check_position_limits" /\ DeliveredExitNotes # {}
     /\ Accepted("sell") # {}) => (last.pre # None /\ position = None)
C22_AcceptedExitMet ==
    /\ last.op = "check_position_limits" /\ DeliveredExitNotes # {}
    /\ Accepted("sell") # {} /\ position = None

\* C23: every sell order is submitted for the amount of the position record
\* the call found; that amount is the amount of the most recent accepted
\* buy order (an accepted buy records its own amount, no buy is accepted
\* while a position is held, and the record is not altered until it is
\* removed); one call of execute_trade, and one exit check, submits at most
\* one order.
C23_SellsWhatIsHeld ==
    /\ [](/\ Len(last.orders) <= 1
          /\ \A o \in Submitted("sell") :
                last.pre # None /\ o.amount = Some(Get(last.pre).amount)
          /\ \A o \in Accepted("buy") :
                /\ last.pre = None /\ position # None
                /\ o.amount = Some(Get(position).amount))
    /\ [][/\ (position # None /\ position' # None) => position' = position
          /\ (position = None /\ position' # None)
                => \E o \in Accepted("buy")' :
                      o.amount = Some(Get(position').amount)]_vars
C23_Witness ==
    /\ Traded("SELL") /\ last.pre # None
    /\ Get(last.pre).amount = <<200000, 100000>>
    /\ Accepted("sell") = {[side |-> "sell", amount |-> Some(<<200000, 100000>>),
                            result |-> "accepted"]}
\* an exit check selling the recorded amount is met as well
C23_ExitSells ==
    /\ last.op = "check_position_limits" /\ last.pre # None
    /\ \E o \in Accepted("sell") : o.amount = Some(Get(last.pre).amount)

====
